---- MODULE Spec2Model ----
(***************************************************************************)
(* The commit stored procedures (doltCommit, doltCommitHashOut,            *)
(* doDoltCommit) and the remote-tracking divergence report of `dolt        *)
(* status` (printRemoteRefTrackingInfo, countCommitsInRange).              *)
(*                                                                         *)
(* Spec        the commit procedures called by two sessions on one branch  *)
(* SpecStatus  the divergence report over every small commit DAG           *)
(***************************************************************************)
EXTENDS Integers, Sequences, FiniteSets, TLC

VARIABLES
    commits,     \* the commit store: commits[h] = [parents, root, desc]
    branchRef,   \* hash the local branch ref points at
    ws,          \* the branch's working set: [working, staged] roots
    txRef,       \* txRef[s]: branch head read when session s began its transaction
    result,      \* outcome of the call a session has made and not yet consumed
    remoteRef,   \* hash the remote-tracking ref points at
    status       \* outcome of the last printRemoteRefTrackingInfo

vars == <<commits, branchRef, ws, txRef, result, remoteRef, status>>

-----------------------------------------------------------------------------
(* Bounds *)

MaxCommits == 2      \* commits the store may hold in Spec
MaxArgs == 3         \* flags on one command line
MaxNodes == 5        \* commits of a DAG in SpecStatus

Sessions == {"s1", "s2"}
Tables == {"t"}
Absent == "absent"               \* the table is not in the root
Contents == {Absent, "rows"}     \* what a root holds for a table
Msgs == {"m1"}
InitDesc == "init"

None == "none"
NoHash == 0                      \* the empty hash string ""
StaleHash == -1                  \* what the caller's out variable held before a call
EmptyRoot == [t \in Tables |-> Absent]

-----------------------------------------------------------------------------
(* Command line: a set of <<flag, value>> pairs, one per flag *)

UpperCaseAllFlag == "-A"
AllFlag == "-a"
AmendFlag == "--amend"
AllowEmptyFlag == "--allow-empty"
SkipEmptyFlag == "--skip-empty"
ForceFlag == "--force"
MessageArg == "-m"
AuthorParam == "--author"
DateParam == "--date"

Tokens ==
    {<<f, "">> : f \in {UpperCaseAllFlag, AllFlag, AmendFlag, AllowEmptyFlag,
                         SkipEmptyFlag, ForceFlag}}
    \cup {<<MessageArg, m>> : m \in Msgs}
    \cup {<<AuthorParam, v>> : v \in {"ok", "bad"}}
    \cup {<<DateParam, v>> : v \in {"ok", "bad"}}

ArgSets ==
    {a \in SUBSET Tokens :
        /\ Cardinality(a) <= MaxArgs
        /\ \A x, y \in a : x[1] = y[1] => x = y}

Contains(apr, flag) == \E x \in apr : x[1] = flag

GetValue(apr, flag) == (CHOOSE x \in apr : x[1] = flag)[2]

\* Failures of the collaborators a call with command line apr goes through;
\* at most one per call, since the call returns at the first one it meets.
\* Staging can fail only under a staging flag, and the head commit is read
\* only under --amend without -m.
Faults(apr) ==
    {None, "access", "parse", "verify", "roots", "pending", "write"}
    \cup (IF Contains(apr, UpperCaseAllFlag) \/ Contains(apr, AllFlag)
          THEN {"stage"} ELSE {})
    \cup (IF Contains(apr, AmendFlag) /\ ~Contains(apr, MessageArg)
          THEN {"head", "meta"} ELSE {})

-----------------------------------------------------------------------------
(* Collaborators of the commit procedures: session, staging, writer *)

State == [commits |-> commits, branchRef |-> branchRef, ws |-> ws, txRef |-> txRef]

\* dSess.GetRoots: the working set's roots and the root of the head the
\* session's transaction read.
GetRoots(st, s) ==
    [working |-> st.ws.working, staged |-> st.ws.staged,
     head |-> st.commits[st.txRef[s]].root]

\* actions.StageAllTables: the staged snapshot becomes the working snapshot.
StageAllTables(roots) == [roots EXCEPT !.staged = roots.working]

\* actions.StageModifiedAndDeletedTables: tracked tables take the working
\* contents (deletion included), untracked new tables stay out.
StageModifiedAndDeletedTables(roots) ==
    [roots EXCEPT !.staged =
        [t \in Tables |-> IF roots.staged[t] # Absent THEN roots.working[t]
                          ELSE roots.staged[t]]]

\* cli.ParseAuthor on the two author strings of the model.
ParseAuthor(authorStr) ==
    IF authorStr = "ok" THEN [err |-> None, name |-> "author", email |-> "author@mail"]
    ELSE [err |-> "InvalidAuthor", name |-> "", email |-> ""]

\* cli.ParseDate on the two date strings of the model.
ParseDate(dateStr) ==
    IF dateStr = "ok" THEN [err |-> None, t |-> "parsed"]
    ELSE [err |-> "InvalidDate", t |-> ""]

\* dSess.GetHeadCommit followed by commit.GetCommitMeta().Description.
HeadDescription(st, s) == st.commits[st.txRef[s]].desc

NilCommit == [nil |-> TRUE]

\* The parents of the commit to write: the head, or under --amend the
\* parents of the head.
PendingParents(st, s, amend) ==
    IF amend THEN st.commits[st.txRef[s]].parents ELSE <<st.txRef[s]>>

\* The root the staged root is compared with.
EffectiveParentRoot(st, s, amend) ==
    LET parents == PendingParents(st, s, amend) IN
    IF parents = <<>> THEN EmptyRoot ELSE st.commits[parents[1]].root

\* dSess.NewPendingCommit: nil when the staged root equals the (amended)
\* parent root and the flags do not ask for an empty commit.
NewPendingCommit(st, s, roots, props, fault) ==
    LET parents == PendingParents(st, s, props.Amend)
        isEmpty == roots.staged = EffectiveParentRoot(st, s, props.Amend)
    IN  IF fault = "pending" THEN [err |-> "PendingError", pc |-> NilCommit]
        ELSE IF isEmpty /\ (props.SkipEmpty \/ ~props.AllowEmpty)
        THEN [err |-> None, pc |-> NilCommit]
        ELSE [err |-> None,
              pc |-> [nil |-> FALSE, root |-> roots.staged, parents |-> parents,
                      desc |-> props.Message, roots |-> roots]]

\* dSess.DoltCommit: writes the commit, moves the branch ref and replaces the
\* working set in one step, or changes nothing; a ref that moved since the
\* transaction read it is a conflict.
DoltCommit(st, s, pc, fault) ==
    IF st.branchRef # st.txRef[s] THEN [err |-> "Conflict", hash |-> NoHash, st |-> st]
    ELSE IF fault = "write" THEN [err |-> "WriteError", hash |-> NoHash, st |-> st]
    ELSE LET h == Len(st.commits) + 1 IN
         [err |-> None, hash |-> h,
          st |-> [commits |-> Append(st.commits,
                                     [parents |-> pc.parents, root |-> pc.root,
                                      desc |-> pc.desc]),
                  branchRef |-> h,
                  ws |-> [working |-> pc.roots.working, staged |-> pc.roots.staged],
                  txRef |-> [st.txRef EXCEPT ![s] = h]]]

-----------------------------------------------------------------------------
(* doDoltCommit *)

Ret(hash, skipped, err, calls, props, roots, post) ==
    [hash |-> hash, skipped |-> skipped, err |-> err, calls |-> calls,
     props |-> props, roots |-> roots, post |-> post]

NoProps == [reached |-> FALSE]
NoRoots == [read |-> FALSE]

\* Variant: the arguments are parsed and verified before the access check.
PrologueParseFirst(fault) ==
    IF fault = "parse" THEN [err |-> "ParseError", calls |-> <<"Parse">>]
    ELSE IF fault = "verify"
    THEN [err |-> "VerifyError", calls |-> <<"Parse", "VerifyCommitArgs">>]
    ELSE IF fault = "access"
    THEN [err |-> "AccessDenied", calls |-> <<"Parse", "VerifyCommitArgs", "CheckAccess">>]
    ELSE [err |-> None, calls |-> <<"Parse", "VerifyCommitArgs", "CheckAccess">>]

\* Access check, argument parsing and verification, in the order of the code.
Prologue(fault) ==
    IF fault = "access" THEN [err |-> "AccessDenied", calls |-> <<"CheckAccess">>]
    ELSE IF fault = "parse" THEN [err |-> "ParseError", calls |-> <<"CheckAccess", "Parse">>]
    ELSE IF fault = "verify"
    THEN [err |-> "VerifyError", calls |-> <<"CheckAccess", "Parse", "VerifyCommitArgs">>]
    ELSE [err |-> None, calls |-> <<"CheckAccess", "Parse", "VerifyCommitArgs">>]

\* The staging flags rebind the local roots.
Stage(apr, roots, fault) ==
    IF Contains(apr, UpperCaseAllFlag)
    THEN [err |-> IF fault = "stage" THEN "StageError" ELSE None,
          roots |-> StageAllTables(roots), calls |-> <<"StageAllTables">>]
    ELSE IF Contains(apr, AllFlag)
    THEN [err |-> IF fault = "stage" THEN "StageError" ELSE None,
          roots |-> StageModifiedAndDeletedTables(roots),
          calls |-> <<"StageModifiedAndDeletedTables">>]
    ELSE [err |-> None, roots |-> roots, calls |-> <<>>]

\* Variant: staging stores the staged roots in the session at once.
AfterStagingWritesSession(st, roots) == [st EXCEPT !.ws.staged = roots.staged]

\* What the session holds once the staging flags have been applied: the
\* staged roots live in the local variable only.
AfterStaging(st, roots) == st

\* Author: the --author string, or the SQL user and user@address.
Author(apr) ==
    IF Contains(apr, AuthorParam)
    THEN ParseAuthor(GetValue(apr, AuthorParam)) @@ [calls |-> <<"ParseAuthor">>]
    ELSE [err |-> None, name |-> "user", email |-> "user@address", calls |-> <<>>]

\* Variant: --amend reuses the head's description even when -m is given.
MessageAmendFirst(apr, amend, st, s, fault) ==
    IF amend
    THEN [err |-> None, msg |-> HeadDescription(st, s),
          calls |-> <<"GetHeadCommit", "GetCommitMeta">>]
    ELSE IF Contains(apr, MessageArg)
    THEN [err |-> None, msg |-> GetValue(apr, MessageArg), calls |-> <<>>]
    ELSE [err |-> "MissingCommitMessage", msg |-> "", calls |-> <<>>]

\* Message: the -m value; without it the head commit's description under
\* --amend, and an error otherwise.
Message(apr, amend, st, s, fault) ==
    IF Contains(apr, MessageArg)
    THEN [err |-> None, msg |-> GetValue(apr, MessageArg), calls |-> <<>>]
    ELSE IF amend
    THEN IF fault = "head"
         THEN [err |-> "HeadCommitError", msg |-> "", calls |-> <<"GetHeadCommit">>]
         ELSE IF fault = "meta"
         THEN [err |-> "CommitMetaError", msg |-> "",
               calls |-> <<"GetHeadCommit", "GetCommitMeta">>]
         ELSE [err |-> None, msg |-> HeadDescription(st, s),
               calls |-> <<"GetHeadCommit", "GetCommitMeta">>]
    ELSE [err |-> "MissingCommitMessage", msg |-> "", calls |-> <<>>]

\* Date: the --date string, or the query time.
Date(apr) ==
    IF Contains(apr, DateParam)
    THEN ParseDate(GetValue(apr, DateParam)) @@ [calls |-> <<"ParseDate">>]
    ELSE [err |-> None, t |-> "queryTime", calls |-> <<>>]

\* Variant: the nil case looks at --allow-empty instead of --skip-empty.
PendingOutcomeWrongFlag(pendingCommit, apr) ==
    IF pendingCommit.nil /\ Contains(apr, AllowEmptyFlag) THEN "skipped"
    ELSE IF pendingCommit.nil THEN "nothing to commit"
    ELSE "write"

\* Variant: a nil pending commit is always reported as skipped.
PendingOutcomeNilSkips(pendingCommit, apr) ==
    IF pendingCommit.nil THEN "skipped" ELSE "write"

\* What a nil or non-nil pending commit leads to.
PendingOutcome(pendingCommit, apr) ==
    IF pendingCommit.nil /\ Contains(apr, SkipEmptyFlag) THEN "skipped"
    ELSE IF pendingCommit.nil THEN "nothing to commit"
    ELSE "write"

\* Variant: a failed write is reported as a skipped commit.
WrittenSwallowsError(w, calls, props, roots, st) ==
    IF w.err # None THEN Ret(NoHash, TRUE, None, calls, props, roots, st)
    ELSE Ret(w.hash, FALSE, None, calls \o <<"HashOf">>, props, roots, w.st)

\* What doDoltCommit returns for the writer's answer.
Written(w, calls, props, roots, st) ==
    IF w.err # None THEN Ret(NoHash, FALSE, w.err, calls, props, roots, st)
    ELSE Ret(w.hash, FALSE, None, calls \o <<"HashOf">>, props, roots, w.st)

doDoltCommit(st0, s, apr, fault) ==
    LET pro == Prologue(fault) IN
    IF pro.err # None THEN Ret(NoHash, FALSE, pro.err, pro.calls, NoProps, NoRoots, st0)
    ELSE
    LET c1 == pro.calls \o <<"GetRoots">> IN
    IF fault = "roots" THEN Ret(NoHash, FALSE, "LoadError", c1, NoProps, NoRoots, st0)
    ELSE
    LET sg == Stage(apr, GetRoots(st0, s), fault)
        c2 == c1 \o sg.calls
        roots == [read |-> TRUE] @@ sg.roots
        st == AfterStaging(st0, sg.roots)
    IN
    IF sg.err # None THEN Ret(NoHash, FALSE, sg.err, c2, NoProps, roots, st)
    ELSE
    LET au == Author(apr)
        c3 == c2 \o au.calls
    IN
    IF au.err # None THEN Ret(NoHash, FALSE, au.err, c3, NoProps, roots, st)
    ELSE
    LET amend == Contains(apr, AmendFlag)
        ms == Message(apr, amend, st, s, fault)
        c4 == c3 \o ms.calls
    IN
    IF ms.err # None THEN Ret(NoHash, FALSE, ms.err, c4, NoProps, roots, st)
    ELSE
    LET dt == Date(apr)
        c5 == c4 \o dt.calls
    IN
    IF dt.err # None THEN Ret(NoHash, FALSE, dt.err, c5, NoProps, roots, st)
    ELSE
    LET props == [reached |-> TRUE, Message |-> ms.msg, Date |-> dt.t,
                  AllowEmpty |-> Contains(apr, AllowEmptyFlag),
                  SkipEmpty |-> Contains(apr, SkipEmptyFlag),
                  Amend |-> amend, Force |-> Contains(apr, ForceFlag),
                  Name |-> au.name, Email |-> au.email]
        np == NewPendingCommit(st, s, sg.roots, props, fault)
        c6 == c5 \o <<"NewPendingCommit">>
    IN
    IF np.err # None THEN Ret(NoHash, FALSE, np.err, c6, props, roots, st)
    ELSE
    LET po == PendingOutcome(np.pc, apr) IN
    IF po = "skipped" THEN Ret(NoHash, TRUE, None, c6, props, roots, st)
    ELSE IF po = "nothing to commit"
    THEN Ret(NoHash, FALSE, "NothingToCommit", c6, props, roots, st)
    ELSE Written(DoltCommit(st, s, np.pc, fault), c6 \o <<"DoltCommit">>, props, roots, st)

-----------------------------------------------------------------------------
(* The two stored procedures *)

\* doltCommit: one row holding the hash, or no row when skipped or failed.
doltCommit(st, s, apr, fault) ==
    LET r == doDoltCommit(st, s, apr, fault) IN
    IF r.err # None THEN [rows |-> <<>>, err |-> r.err, r |-> r]
    ELSE IF r.skipped THEN [rows |-> <<>>, err |-> None, r |-> r]
    ELSE [rows |-> <<r.hash>>, err |-> None, r |-> r]

\* Variant: the out variable is assigned before the skipped test.
OutBindingOnSkip(outHash, r) ==
    IF r.err # None THEN outHash ELSE r.hash

\* The value of *outHash when doltCommitHashOut returns.
OutBinding(outHash, r) ==
    IF r.err # None THEN outHash
    ELSE IF r.skipped THEN outHash
    ELSE r.hash

\* doltCommitHashOut: as doltCommit, and the hash is stored through outHash.
doltCommitHashOut(st, s, outHash, apr, fault) ==
    LET r == doDoltCommit(st, s, apr, fault) IN
    IF r.err # None THEN [rows |-> <<>>, err |-> r.err, out |-> OutBinding(outHash, r), r |-> r]
    ELSE IF r.skipped THEN [rows |-> <<>>, err |-> None, out |-> OutBinding(outHash, r), r |-> r]
    ELSE [rows |-> <<r.hash>>, err |-> None, out |-> OutBinding(outHash, r), r |-> r]

-----------------------------------------------------------------------------
(* Spec: two sessions calling the procedures on one branch *)

NoResult == [op |-> None]
NoStatus == [ran |-> FALSE]

StagingMode(apr) ==
    IF Contains(apr, UpperCaseAllFlag) THEN "StageAll"
    ELSE IF Contains(apr, AllFlag) THEN "StageModifiedAndDeleted"
    ELSE None

\* What a returned call leaves for its caller, with the inputs and the
\* state before the call that the properties below speak about.
Outcome(op, s, apr, fault, o, out, twin) ==
    [op |-> op,
     twinRows |-> twin.rows, twinErr |-> twin.err, twinPost |-> twin.r.post,
     emptyDiff |-> o.r.roots.read
                   /\ o.r.roots.staged
                        = EffectiveParentRoot(State, s, Contains(apr, AmendFlag)),
     hash |-> o.r.hash, skipped |-> o.r.skipped, err |-> o.err, rows |-> o.rows,
     out |-> out, calls |-> o.r.calls,
     reached |-> o.r.props.reached,
     Message |-> IF o.r.props.reached THEN o.r.props.Message ELSE "",
     localStaged |-> IF o.r.roots.read THEN o.r.roots.staged ELSE ws.staged,
     denied |-> fault = "access",
     mode |-> StagingMode(apr),
     msgGiven |-> Contains(apr, MessageArg),
     msgArg |-> IF Contains(apr, MessageArg) THEN GetValue(apr, MessageArg) ELSE "",
     amend |-> Contains(apr, AmendFlag),
     skipEmpty |-> Contains(apr, SkipEmptyFlag),
     allowEmpty |-> Contains(apr, AllowEmptyFlag),
     preRef |-> branchRef, preTx |-> txRef[s], preWs |-> ws,
     preLen |-> Len(commits), preDesc |-> HeadDescription(State, s)]

Install(post) ==
    /\ Len(post.commits) <= MaxCommits
    /\ commits' = post.commits
    /\ branchRef' = post.branchRef
    /\ ws' = post.ws
    /\ txRef' = post.txRef

Init ==
    /\ commits = <<[parents |-> <<>>, root |-> EmptyRoot, desc |-> InitDesc]>>
    /\ branchRef = 1
    /\ ws = [working |-> EmptyRoot, staged |-> EmptyRoot]
    /\ txRef = [s \in Sessions |-> 1]
    /\ result = NoResult
    /\ remoteRef = 1
    /\ status = NoStatus

\* A session starts a transaction: it reads the branch head.
BeginTransaction(s) ==
    /\ result.op = None
    /\ txRef[s] # branchRef
    /\ txRef' = [txRef EXCEPT ![s] = branchRef]
    /\ UNCHANGED <<commits, branchRef, ws, result, remoteRef, status>>

\* A table of the working root is written or dropped.
EditTable(t, v) ==
    /\ result.op = None
    /\ ws.working[t] # v
    /\ ws' = [ws EXCEPT !.working[t] = v]
    /\ UNCHANGED <<commits, branchRef, txRef, result, remoteRef, status>>

\* dolt add: the working root is staged.
AddAll ==
    /\ result.op = None
    /\ ws.staged # ws.working
    /\ ws' = [ws EXCEPT !.staged = ws.working]
    /\ UNCHANGED <<commits, branchRef, txRef, result, remoteRef, status>>

CallDoltCommit(s, apr, fault) ==
    /\ \E o \in {doltCommit(State, s, apr, fault)} :
        /\ Install(o.r.post)
        /\ result' = Outcome("doltCommit", s, apr, fault, o, StaleHash,
                              doltCommitHashOut(State, s, StaleHash, apr, fault))
    /\ UNCHANGED <<remoteRef, status>>

CallDoltCommitHashOut(s, apr, fault) ==
    /\ \E o \in {doltCommitHashOut(State, s, StaleHash, apr, fault)} :
        /\ Install(o.r.post)
        /\ result' = Outcome("doltCommitHashOut", s, apr, fault, o, o.out,
                              doltCommit(State, s, apr, fault))
    /\ UNCHANGED <<remoteRef, status>>

\* (a call is accepted only when the previous call's outcome has been consumed:
\* Next guards both procedures with result.op = None)

\* The caller consumes the rows and the error of its call.
Consume ==
    /\ result.op # None
    /\ result' = NoResult
    /\ UNCHANGED <<commits, branchRef, ws, txRef, remoteRef, status>>

Next ==
    \/ \E s \in Sessions : BeginTransaction(s)
    \/ \E t \in Tables, v \in Contents : EditTable(t, v)
    \/ AddAll
    \/ /\ result.op = None
       /\ \E s \in Sessions, apr \in ArgSets : \E fault \in Faults(apr) :
            CallDoltCommit(s, apr, fault)
    \/ /\ result.op = None
       /\ \E s \in Sessions, apr \in ArgSets : \E fault \in Faults(apr) :
            CallDoltCommitHashOut(s, apr, fault)
    \/ Consume

Spec == Init /\ [][Next]_vars

-----------------------------------------------------------------------------
(* Commit graph: ancestry, common ancestor, topological iterator *)

Max(S) == CHOOSE x \in S : \A y \in S : y <= x

ParentSet(cs, h) == {cs[h].parents[i] : i \in 1..Len(cs[h].parents)}

RECURSIVE Ancestors(_, _)
\* h and every commit reachable from it through parent links
Ancestors(cs, h) ==
    {h} \cup UNION {Ancestors(cs, p) : p \in ParentSet(cs, h)}

RECURSIVE Height(_, _)
Height(cs, h) ==
    IF cs[h].parents = <<>> THEN 0
    ELSE 1 + Max({Height(cs, p) : p \in ParentSet(cs, h)})

Heights(cs) == [h \in 1..Len(cs) |-> Height(cs, h)]

\* x comes out of a topological walk before y: higher commits first, the
\* younger of two commits of one height first (ht: the commits' heights).
Precedes(ht, x, y) ==
    \/ ht[x] > ht[y]
    \/ ht[x] = ht[y] /\ x > y

RECURSIVE InOrder(_, _)
InOrder(ht, S) ==
    IF S = {} THEN <<>>
    ELSE LET first == CHOOSE x \in S : \A y \in S \ {x} : Precedes(ht, x, y)
         IN  <<first>> \o InOrder(ht, S \ {first})

\* commitwalk.GetTopologicalOrderIterator: what Next yields, call by call,
\* for a walk started at one hash.
GetTopologicalOrderIterator(cs, startCommitHash) ==
    InOrder(Heights(cs), Ancestors(cs, startCommitHash))

\* doltdb.GetCommitAncestor: the highest commit reachable from both.
GetCommitAncestor(cs, a, b) ==
    LET common == Ancestors(cs, a) \cap Ancestors(cs, b)
        ht == Heights(cs)
    IN  IF common = {} THEN [err |-> "NoCommonAncestor", hash |-> NoHash]
        ELSE [err |-> None,
              hash |-> CHOOSE c \in common : \A d \in common \ {c} : Precedes(ht, c, d)]

-----------------------------------------------------------------------------
(* status.go: countCommitsInRange, getRemoteTrackingMsg,
   printRemoteRefTrackingInfo *)

RECURSIVE CountLoopCountsTarget(_, _, _, _, _)
\* Variant: the count is incremented before the comparison with the target.
CountLoopCountsTarget(itr, targetCommitHash, count, k, failAt) ==
    IF k = failAt THEN [count |-> 0, err |-> "IteratorError"]
    ELSE IF itr = <<>> THEN [count |-> 0, err |-> "no match found to ancestor commit"]
    ELSE IF Head(itr) = targetCommitHash THEN [count |-> count + 1, err |-> None]
    ELSE CountLoopCountsTarget(Tail(itr), targetCommitHash, count + 1, k + 1, failAt)

RECURSIVE CountLoopEofBreaks(_, _, _, _, _)
\* Variant: io.EOF leaves the loop with the count reached so far.
CountLoopEofBreaks(itr, targetCommitHash, count, k, failAt) ==
    IF k = failAt THEN [count |-> 0, err |-> "IteratorError"]
    ELSE IF itr = <<>> THEN [count |-> count, err |-> None]
    ELSE IF Head(itr) = targetCommitHash THEN [count |-> count, err |-> None]
    ELSE CountLoopEofBreaks(Tail(itr), targetCommitHash, count + 1, k + 1, failAt)

RECURSIVE CountLoop(_, _, _, _, _)
\* The for loop of countCommitsInRange: itr is what the iterator has left,
\* k numbers the call to Next, failAt is the call that returns an error
\* other than io.EOF (0: none).
CountLoop(itr, targetCommitHash, count, k, failAt) ==
    IF k = failAt THEN [count |-> 0, err |-> "IteratorError"]
    ELSE IF itr = <<>> THEN [count |-> 0, err |-> "no match found to ancestor commit"]
    ELSE IF Head(itr) = targetCommitHash THEN [count |-> count, err |-> None]
    ELSE CountLoop(Tail(itr), targetCommitHash, count + 1, k + 1, failAt)

countCommitsInRange(cs, startCommitHash, targetCommitHash, openFails, failAt) ==
    IF openFails THEN [count |-> 0, err |-> "IteratorOpenError"]
    ELSE CountLoop(GetTopologicalOrderIterator(cs, startCommitHash),
                   targetCommitHash, 0, 1, failAt)

getRemoteTrackingMsg(ahead, behind) ==
    IF ahead > 0 /\ behind > 0
    THEN [form |-> "diverged", ahead |-> ahead, behind |-> behind, plural |-> FALSE]
    ELSE IF ahead > 0
    THEN [form |-> "ahead", ahead |-> ahead, behind |-> 0, plural |-> ahead > 1]
    ELSE IF behind > 0
    THEN [form |-> "behind", ahead |-> 0, behind |-> behind, plural |-> behind > 1]
    ELSE [form |-> "up to date", ahead |-> 0, behind |-> 0, plural |-> FALSE]

NoMsg == [form |-> None, ahead |-> 0, behind |-> 0, plural |-> FALSE]

\* What one run of printRemoteRefTrackingInfo leaves: the error returned, the
\* message printed, and how far the run got.
Report(err, msg, resolved, anc, walks, ahead, behind) ==
    [err |-> err, msg |-> msg, resolved |-> resolved, anc |-> anc,
     walks |-> walks, ahead |-> ahead, behind |-> behind]

\* The environment of one run: e.kind names the collaborator that fails or
\* the configuration that is missing, e.anc the commit a broken ancestor
\* lookup answers with, e.at the failing call to Next.
StatusEnvs(cs) ==
    {[kind |-> k, anc |-> 0, at |-> 0] :
        k \in {None, "headRef", "branches", "noUpstream", "resolveHead", "remotes",
               "noRemote", "trackingRef", "resolveRemote", "ancestor",
               "openBehind", "openAhead"}}
    \cup {[kind |-> "badAncestor", anc |-> c, at |-> 0] : c \in 1..Len(cs)}
    \cup {[kind |-> k, anc |-> 0, at |-> n] :
            k \in {"nextBehind", "nextAhead"}, n \in 1..Len(cs)}

printRemoteRefTrackingInfo(cs, headHash, remoteHash, e) ==
    IF e.kind = "headRef" THEN Report("HeadRefError", NoMsg, FALSE, NoHash, 0, 0, 0)
    ELSE IF e.kind = "branches" THEN Report("BranchesError", NoMsg, FALSE, NoHash, 0, 0, 0)
    ELSE IF e.kind = "noUpstream" THEN Report(None, NoMsg, FALSE, NoHash, 0, 0, 0)
    ELSE IF e.kind = "resolveHead" THEN Report("ResolveError", NoMsg, FALSE, NoHash, 0, 0, 0)
    ELSE IF e.kind = "remotes" THEN Report("RemotesError", NoMsg, FALSE, NoHash, 0, 0, 0)
    ELSE IF e.kind = "noRemote" THEN Report(None, NoMsg, FALSE, NoHash, 0, 0, 0)
    ELSE IF e.kind = "trackingRef" THEN Report("TrackingRefError", NoMsg, FALSE, NoHash, 0, 0, 0)
    ELSE IF e.kind = "resolveRemote" THEN Report("ResolveError", NoMsg, FALSE, NoHash, 0, 0, 0)
    ELSE
    LET anc == IF e.kind = "ancestor" THEN [err |-> "AncestorError", hash |-> NoHash]
               ELSE IF e.kind = "badAncestor" THEN [err |-> None, hash |-> e.anc]
               ELSE GetCommitAncestor(cs, headHash, remoteHash)
    IN
    IF anc.err # None THEN Report(anc.err, NoMsg, TRUE, NoHash, 0, 0, 0)
    ELSE IF headHash # remoteHash
    THEN LET b == countCommitsInRange(cs, remoteHash, anc.hash, e.kind = "openBehind",
                                      IF e.kind = "nextBehind" THEN e.at ELSE 0)
         IN
         IF b.err # None THEN Report(b.err, NoMsg, TRUE, anc.hash, 1, 0, 0)
         ELSE
         LET a == countCommitsInRange(cs, headHash, anc.hash, e.kind = "openAhead",
                                      IF e.kind = "nextAhead" THEN e.at ELSE 0)
         IN
         IF a.err # None THEN Report(a.err, NoMsg, TRUE, anc.hash, 2, 0, 0)
         ELSE Report(None, getRemoteTrackingMsg(a.count, b.count), TRUE, anc.hash, 2,
                     a.count, b.count)
    ELSE Report(None, getRemoteTrackingMsg(0, 0), TRUE, anc.hash, 0, 0, 0)

-----------------------------------------------------------------------------
(* SpecStatus: the divergence report over every commit DAG of MaxNodes
   commits with up to two parents per commit *)

ParentChoices(h) ==
    IF h = 1 THEN {<<>>}
    ELSE {<<p>> : p \in 1..(h - 1)}
         \cup {pq \in (1..(h - 1)) \X (1..(h - 1)) : pq[1] > pq[2]}

RECURSIVE DagsOf(_)
\* every store of n commits in which commit h has parents ParentChoices(h)
DagsOf(n) ==
    IF n = 0 THEN {<<>>}
    ELSE {Append(cs, [parents |-> ps, root |-> EmptyRoot, desc |-> InitDesc]) :
            cs \in DagsOf(n - 1), ps \in ParentChoices(n)}

Dags == DagsOf(MaxNodes)

InitStatus ==
    /\ commits \in Dags
    /\ branchRef \in 1..MaxNodes
    /\ remoteRef \in 1..MaxNodes
    /\ ws = [working |-> EmptyRoot, staged |-> EmptyRoot]
    /\ txRef = [s \in Sessions |-> branchRef]
    /\ result = NoResult
    /\ status = NoStatus

\* dolt status reports on the branch and its remote-tracking branch.
PrintStatus(e) ==
    /\ status' = [ran |-> TRUE, env |-> e]
                 @@ printRemoteRefTrackingInfo(commits, branchRef, remoteRef, e)
    /\ UNCHANGED <<commits, branchRef, ws, txRef, result, remoteRef>>

\* The report has been read.
ReadStatus ==
    /\ status.ran
    /\ status' = NoStatus
    /\ UNCHANGED <<commits, branchRef, ws, txRef, result, remoteRef>>

NextStatus ==
    \/ /\ ~status.ran
       /\ \E e \in StatusEnvs(commits) : PrintStatus(e)
    \/ ReadStatus

SpecStatus == InitStatus /\ [][NextStatus]_vars

-----------------------------------------------------------------------------
(* Properties of the commit procedures, over the outcome of every call *)

Called == result.op # None

\* The call asked the writer for a pending commit and the writer answered.
Answered == Called /\ result.reached /\ result.err # "PendingError"

WriterCalled == Called /\ \E i \in 1..Len(result.calls) : result.calls[i] = "DoltCommit"

StoreUntouched ==
    /\ branchRef = result.preRef
    /\ Len(commits) = result.preLen
    /\ ws = result.preWs

CommitCreated == Called /\ result.err = None /\ ~result.skipped

\* C1: a call whose staged snapshot (after the staging flags) equals the
\* effective parent root, so that the writer answers with no pending commit,
\* and that carries --skip-empty returns ("", skipped = true, no error)
\* without calling DoltCommit, and leaves the branch ref where it was.
C1_SkipEmptyNoOp ==
    (Answered /\ result.emptyDiff /\ result.skipEmpty)
        => /\ result.hash = NoHash
           /\ result.skipped
           /\ result.err = None
           /\ ~WriterCalled
           /\ branchRef = result.preRef
           /\ Len(commits) = result.preLen

C1_Witness ==
    /\ Answered /\ result.emptyDiff /\ result.skipEmpty
    /\ result.mode = "StageAll"
    /\ result.skipped

\* C2: a call whose staged snapshot equals the effective parent root, with
\* neither --skip-empty nor --allow-empty, fails with "nothing to commit"
\* (hash "", skipped = false), writes no commit, and the branch ref read
\* afterwards is the one read before.
C2_NothingToCommit ==
    (Answered /\ result.emptyDiff /\ ~result.skipEmpty /\ ~result.allowEmpty)
        => /\ result.err = "NothingToCommit"
           /\ result.hash = NoHash
           /\ ~result.skipped
           /\ ~WriterCalled
           /\ branchRef = result.preRef
           /\ Len(commits) = result.preLen

C2_Witness ==
    /\ Answered /\ result.emptyDiff /\ ~result.skipEmpty /\ ~result.allowEmpty
    /\ result.err = "NothingToCommit"
    /\ result.msgGiven

C6_AccessCheckedFirst ==
    Called =>
        /\ result.calls[1] = "CheckAccess"
        /\ result.denied
              => /\ result.err = "AccessDenied"
                 /\ result.calls = <<"CheckAccess">>
                 /\ result.hash = NoHash /\ ~result.skipped
                 /\ ~result.reached
                 /\ StoreUntouched

C6_Witness ==
    /\ Called /\ result.denied /\ result.err = "AccessDenied"
    /\ result.mode = "StageAll" /\ result.msgGiven

\* C7: the message handed to the writer is the -m value whenever -m was
\* given, with or without --amend; without -m and with --amend it is the
\* description of the branch-head commit, unchanged; without -m and without
\* --amend the call fails with "Must provide commit message" (unless an
\* earlier step failed) and the writer is never asked.
C7_MessageResolution ==
    Called =>
        /\ result.reached =>
              /\ result.msgGiven => result.Message = result.msgArg
              /\ ~result.msgGiven => result.amend /\ result.Message = result.preDesc
              /\ CommitCreated => commits[result.hash].desc = result.Message
        /\ (~result.msgGiven /\ ~result.amend) =>
              /\ ~result.reached
              /\ result.err \in {"MissingCommitMessage", "AccessDenied", "ParseError",
                                 "VerifyError", "LoadError", "StageError",
                                 "InvalidAuthor"}

C7_Witness ==
    /\ CommitCreated /\ result.reached
    /\ ~result.msgGiven /\ result.amend
    /\ result.Message = result.preDesc
    /\ commits[result.hash].desc = result.preDesc

\* C9: for the same arguments and state doltCommit and doltCommitHashOut
\* return the same rows and error and leave the same state; the row holds
\* the new hash exactly when a commit was created, and there is no row when
\* the commit was skipped or failed; doltCommitHashOut stores that hash in the
\* out variable on success and leaves the variable alone on skip and error.
C9_SurfacesAgree ==
    Called =>
        /\ result.twinRows = result.rows
        /\ result.twinErr = result.err
        /\ result.twinPost = State
        /\ result.rows = (IF CommitCreated THEN <<result.hash>> ELSE <<>>)
        /\ CommitCreated <=> result.hash # NoHash
        /\ result.op = "doltCommitHashOut"
              => result.out = (IF CommitCreated THEN result.hash ELSE StaleHash)

C9_Witness ==
    /\ Called /\ result.op = "doltCommitHashOut"
    /\ result.skipped /\ result.err = None
    /\ result.out = StaleHash /\ result.rows = <<>>

\* C10 as stated: whenever the branch ref has moved since the transaction
\* read its roots, a call that gets as far as asking the writer for a
\* pending commit ends with the conflict error (hash "", skipped = false).
C10_MovedRefAlwaysConflicts ==
    (Answered /\ result.preRef # result.preTx)
        => /\ result.err = "Conflict"
           /\ result.hash = NoHash
           /\ ~result.skipped

\* C10 amended: when the branch ref has moved since the transaction read
\* its roots, no call creates a commit or moves the ref; a call that reaches
\* the commit writer ends with the conflict error (hash "", skipped = false,
\* no row) after a single DoltCommit; a call with nothing to commit ends
\* skipped or with "nothing to commit" without reaching the writer.  Hence
\* every commit created was created by a transaction that had read the
\* current branch head.
C10_ConflictAtWriter ==
    Called =>
        /\ result.preRef # result.preTx =>
              /\ StoreUntouched
              /\ ~CommitCreated
              /\ WriterCalled =>
                    /\ result.err = "Conflict"
                    /\ result.hash = NoHash /\ ~result.skipped /\ result.rows = <<>>
                    /\ Cardinality({i \in 1..Len(result.calls) :
                                        result.calls[i] = "DoltCommit"}) = 1
              /\ (Answered /\ ~WriterCalled) =>
                    \/ result.skipped /\ result.err = None
                    \/ result.err = "NothingToCommit"
        /\ CommitCreated => result.preTx = result.preRef

C10_Witness ==
    /\ Called /\ result.preRef # result.preTx
    /\ WriterCalled /\ result.err = "Conflict"
    /\ commits[result.preRef].desc \in Msgs

-----------------------------------------------------------------------------
(* Properties of the divergence report, over every run of it *)

Ran == status.ran

\* Number of commits a topological walk from tip yields before c.
Distance(cs, tip, c) ==
    LET ht == Heights(cs)
    IN  Cardinality({x \in Ancestors(cs, tip) : Precedes(ht, x, c)})

HasMerge(cs, tip) == \E x \in Ancestors(cs, tip) : Len(cs[x].parents) = 2

\* C3: with local head a, upstream b and common ancestor c, the report has
\* ahead = distance(a, c) and behind = distance(b, c), the distance being the
\* number of commits the walk from the tip yields before c (tip counted, c
\* not); with a and b exchanged the two numbers are exchanged.  A head whose
\* only parent is the upstream gives (1, 0), the reverse (0, 1), and two
\* tips each two single-parent commits above a shared commit give (2, 2).
C3_AheadBehindDistances ==
    (Ran /\ status.env.kind = None) =>
        LET a == branchRef
            b == remoteRef
            c == GetCommitAncestor(commits, a, b).hash
            swapped == printRemoteRefTrackingInfo(commits, b, a, status.env)
            only(h) == commits[h].parents[1]
            single(h) == Len(commits[h].parents) = 1
        IN  /\ status.err = None
            /\ status.anc = c
            /\ status.ahead = Distance(commits, a, c)
            /\ status.behind = Distance(commits, b, c)
            /\ status.msg.ahead = status.ahead /\ status.msg.behind = status.behind
            /\ swapped.ahead = status.behind /\ swapped.behind = status.ahead
            /\ (single(a) /\ only(a) = b) => status.ahead = 1 /\ status.behind = 0
            /\ (single(b) /\ only(b) = a) => status.ahead = 0 /\ status.behind = 1
            /\ ( /\ single(a) /\ single(only(a))
                 /\ single(b) /\ single(only(b))
                 /\ only(a) # only(b)
                 /\ only(only(a)) = only(only(b)) )
                  => status.ahead = 2 /\ status.behind = 2

C3_Witness ==
    /\ Ran /\ status.env.kind = None /\ status.err = None
    /\ status.ahead = 2 /\ status.behind = 1
    /\ HasMerge(commits, branchRef)
    /\ status.msg.form = "diverged"

\* C5: when the local head hash equals the resolved upstream head hash the
\* report is (0, 0) without error at once: no traversal is started and no
\* later step (ancestor lookup, counting) makes the run fail.
C5_EqualHeadsNeverFail ==
    (Ran /\ status.resolved /\ branchRef = remoteRef)
        => /\ status.err = None
           /\ status.ahead = 0 /\ status.behind = 0
           /\ status.walks = 0

\* C8: a walk that runs out of commits without yielding the ancestor hash
\* ends the run with "no match found to ancestor commit"; an error of the
\* iterator other than exhaustion ends it with that error; in both cases,
\* as for every error, no count is reported and no tracking message printed.
C8_ExhaustionIsAnError ==
    Ran =>
        LET e == status.env
            walkB == GetTopologicalOrderIterator(commits, remoteRef)
            walkA == GetTopologicalOrderIterator(commits, branchRef)
            in(w, h) == \E i \in 1..Len(w) : w[i] = h
            pos(w, h) == CHOOSE i \in 1..Len(w) : w[i] = h
        IN  /\ status.err # None
                => status.msg = NoMsg /\ status.ahead = 0 /\ status.behind = 0
            /\ (e.kind = "badAncestor" /\ branchRef # remoteRef
                /\ (~in(walkB, e.anc) \/ ~in(walkA, e.anc)))
                => status.err = "no match found to ancestor commit"
            /\ (e.kind = "openBehind" /\ branchRef # remoteRef)
                => status.err = "IteratorOpenError" /\ status.walks = 1
            /\ (e.kind = "openAhead" /\ branchRef # remoteRef)
                => status.err = "IteratorOpenError" /\ status.walks = 2
            /\ (e.kind = "nextBehind" /\ branchRef # remoteRef
                /\ e.at <= pos(walkB, status.anc))
                => status.err = "IteratorError"
            /\ (e.kind = "nextAhead" /\ branchRef # remoteRef
                /\ e.at <= pos(walkA, GetCommitAncestor(commits, branchRef, remoteRef).hash))
                => status.err = "IteratorError"

C8_Witness ==
    /\ Ran /\ status.env.kind = "badAncestor"
    /\ status.err = "no match found to ancestor commit"
    /\ status.walks = 2
    /\ status.msg = NoMsg

====
